---- MODULE Spec2Model ----
(***************************************************************************)
(* Model of src/features/helper/dbtInterface.ts: the DbtInterface client   *)
(* of the dbt-core-interface server (URL construction, health check, lint  *)
(* and format with their timers, abort signals and error payloads).        *)
(*                                                                         *)
(* JavaScript values are tagged records: [str |-> s], [num |-> n],         *)
(* [lit |-> "true" | "false" | "null" | "undefined"], [obj |-> f] with f a  *)
(* function from keys to values, [arr |-> seq].                            *)
(***************************************************************************)
EXTENDS Integers, Sequences, FiniteSets, Bags, TLC

VARIABLES sql, sql_path, extra_config_path, host, port, calls, lastUrl

vars == <<sql, sql_path, extra_config_path, host, port, calls, lastUrl>>

(* ------------------------------ bounds --------------------------------- *)

\* invocations of healthCheck, lint and format in one run
MaxCalls == 2

(* --------------------------- JavaScript values ------------------------- *)

Str(s) == [str |-> s]
Num(n) == [num |-> n]
Lit(w) == [lit |-> w]
Obj(f) == [obj |-> f]
Undefined == Lit("undefined")
Bool(b) == IF b THEN Lit("true") ELSE Lit("false")

\* ${v} in a template literal
ToStr(v) ==
  IF "str" \in DOMAIN v THEN v.str
  ELSE IF "num" \in DOMAIN v THEN ToString(v.num)
  ELSE v.lit

\* if (v) for a string | undefined
Truthy(v) == "str" \in DOMAIN v /\ v.str # ""

(* ------------------------ DbtInterfaceErrorCode ------------------------ *)

FailedToReachServer == -1
CompileSqlFailure == 1
ExecuteSqlFailure == 2
ProjectParseFailure == 3
UnlintableUnfixable == 0

HealthTimeoutMs == 1000
DefaultTimeoutMs == 25000

\* mutant: the unhealthy payload built with another server code
projectNotRegisteredErrorExecute ==
  Obj([error |-> Obj([code |-> Num(ExecuteSqlFailure),
                      message |-> Str("Sqlfluff currently unavailable. Check that your project does not contain compilation errors."),
                      data |-> Obj([error |-> Str("")])])])

projectNotRegisteredError ==
  Obj([error |-> Obj([code |-> Num(CompileSqlFailure),
                      message |-> Str("Sqlfluff currently unavailable. Check that your project does not contain compilation errors."),
                      data |-> Obj([error |-> Str("")])])])

\* mutant: the hint names the host only
FailedToReachServerHintNoPort(h, p) ==
  "Is the server listening on the http://" \o h \o " address?"

\* the failedToReachServerError literal built at the top of lint and format
FailedToReachServerHint(h, p) ==
  "Is the server listening on the http://" \o h \o ":" \o ToString(p) \o " address?"

failedToReachServerError(h, p) ==
  Obj([error |-> Obj([code |-> Num(FailedToReachServer),
                      message |-> Str("Query failed to reach dbt sync server."),
                      data |-> Obj([error |-> Str(FailedToReachServerHint(h, p))])])])

(* ---------------------------- URL construction ------------------------- *)

BaseURL(h, p) == "http://" \o h \o ":" \o ToString(p)

\* mutant: if (this.sql) instead of if (this.sql !== undefined)
getLintURLTruthy(s, sp, ecp, h, p) ==
  LET url0 == BaseURL(h, p) \o "/lint?sql_path=" \o ToStr(sp)
      url1 == IF Truthy(s) THEN BaseURL(h, p) \o "/lint?" ELSE url0
  IN  IF Truthy(ecp) THEN url1 \o "&extra_config_path=" \o ToStr(ecp) ELSE url1

getLintURL(s, sp, ecp, h, p) ==
  LET url0 == BaseURL(h, p) \o "/lint?sql_path=" \o ToStr(sp)
      url1 == IF s # Undefined THEN BaseURL(h, p) \o "/lint?" ELSE url0
  IN  IF Truthy(ecp) THEN url1 \o "&extra_config_path=" \o ToStr(ecp) ELSE url1

\* mutant: the path-mode URL of getFormatURL left at /lint
getFormatURLLintPath(s, sp, ecp, h, p) ==
  LET url0 == BaseURL(h, p) \o "/lint?sql_path=" \o ToStr(sp)
      url1 == IF s # Undefined THEN BaseURL(h, p) \o "/format?" ELSE url0
  IN  IF Truthy(ecp) THEN url1 \o "&extra_config_path=" \o ToStr(ecp) ELSE url1

getFormatURL(s, sp, ecp, h, p) ==
  LET url0 == BaseURL(h, p) \o "/format?sql_path=" \o ToStr(sp)
      url1 == IF s # Undefined THEN BaseURL(h, p) \o "/format?" ELSE url0
  IN  IF Truthy(ecp) THEN url1 \o "&extra_config_path=" \o ToStr(ecp) ELSE url1

HealthURL(h, p) == BaseURL(h, p) \o "/health"

\* encodeURI: the characters it leaves alone, and the escapes of the others
\* that occur in the inputs
UriKeepChars ==
  "ABCDEFGHIJKLMNOPQRSTUVWXYZabcdefghijklmnopqrstuvwxyz0123456789;,/?:@&=+$-_.!~*'()#"

UriKeep == { SubSeq(UriKeepChars, i, i) : i \in 1..Len(UriKeepChars) }

\* the escapes of the printable ASCII characters encodeURI does not leave alone
\* (the grave accent, %60, cannot be written in a string here and is in no input)
EncodeChar(ch) ==
  IF ch \in UriKeep THEN ch
  ELSE IF ch = " " THEN "%20"
  ELSE IF ch = "\"" THEN "%22"
  ELSE IF ch = "%" THEN "%25"
  ELSE IF ch = "<" THEN "%3C"
  ELSE IF ch = ">" THEN "%3E"
  ELSE IF ch = "[" THEN "%5B"
  ELSE IF ch = "\\" THEN "%5C"
  ELSE IF ch = "]" THEN "%5D"
  ELSE IF ch = "^" THEN "%5E"
  ELSE IF ch = "{" THEN "%7B"
  ELSE IF ch = "|" THEN "%7C"
  ELSE "%7D"

RECURSIVE encodeURI(_)
encodeURI(s) ==
  IF Len(s) = 0 THEN ""
  ELSE EncodeChar(SubSeq(s, 1, 1)) \o encodeURI(SubSeq(s, 2, Len(s)))

(* ------------------------------- JSON ---------------------------------- *)
(* A response body is a sequence of tokens: [p |-> "{"] punctuation,       *)
(* [s |-> "ok"] a string literal, [n |-> 1] a number, [w |-> "true"] a     *)
(* bare word.  response.json() parses it or throws.                        *)

P(x) == [p |-> x]
S(x) == [s |-> x]
N(x) == [n |-> x]
W(x) == [w |-> x]

ParseFail == [ok |-> FALSE]

RECURSIVE ParseValue(_, _), ParseMembers(_, _, _), ParseElements(_, _, _)

ParseValue(t, i) ==
  IF i > Len(t) THEN ParseFail
  ELSE LET tok == t[i] IN
    IF "s" \in DOMAIN tok THEN [ok |-> TRUE, val |-> Str(tok.s), next |-> i + 1]
    ELSE IF "n" \in DOMAIN tok THEN [ok |-> TRUE, val |-> Num(tok.n), next |-> i + 1]
    ELSE IF "w" \in DOMAIN tok THEN
      IF tok.w \in {"true", "false", "null"}
      THEN [ok |-> TRUE, val |-> Lit(tok.w), next |-> i + 1]
      ELSE ParseFail
    ELSE IF tok = P("{") THEN
      IF i + 1 <= Len(t) /\ t[i + 1] = P("}")
      THEN [ok |-> TRUE, val |-> Obj(<<>>), next |-> i + 2]
      ELSE ParseMembers(t, i + 1, <<>>)
    ELSE IF tok = P("[") THEN
      IF i + 1 <= Len(t) /\ t[i + 1] = P("]")
      THEN [ok |-> TRUE, val |-> [arr |-> <<>>], next |-> i + 2]
      ELSE ParseElements(t, i + 1, <<>>)
    ELSE ParseFail

\* members of an object after "{" or ","; a repeated key keeps the last value
ParseMembers(t, i, acc) ==
  IF i + 1 > Len(t) \/ "s" \notin DOMAIN t[i] \/ t[i + 1] # P(":") THEN ParseFail
  ELSE LET r == ParseValue(t, i + 2) IN
    IF ~r.ok \/ r.next > Len(t) THEN ParseFail
    ELSE LET acc2 == (t[i].s :> r.val) @@ acc IN
      IF t[r.next] = P("}") THEN [ok |-> TRUE, val |-> Obj(acc2), next |-> r.next + 1]
      ELSE IF t[r.next] = P(",") THEN ParseMembers(t, r.next + 1, acc2)
      ELSE ParseFail

ParseElements(t, i, acc) ==
  LET r == ParseValue(t, i) IN
    IF ~r.ok \/ r.next > Len(t) THEN ParseFail
    ELSE LET acc2 == Append(acc, r.val) IN
      IF t[r.next] = P("]") THEN [ok |-> TRUE, val |-> [arr |-> acc2], next |-> r.next + 1]
      ELSE IF t[r.next] = P(",") THEN ParseElements(t, r.next + 1, acc2)
      ELSE ParseFail

\* JSON.parse of the whole body
JsonParse(t) ==
  LET r == ParseValue(t, 1) IN
    IF r.ok /\ r.next = Len(t) + 1 THEN [ok |-> TRUE, val |-> r.val] ELSE ParseFail

(* ------------------------------ inputs --------------------------------- *)

Hosts == {"localhost"}
Ports == {8581, 9000}

\* the instances lint, format and healthCheck are called on
Instances ==
  { [sql |-> Str("select 1"), sql_path |-> Undefined, extra_config_path |-> Str("cfg.yml")],
    [sql |-> Undefined, sql_path |-> Str("models/a b.sql"), extra_config_path |-> Str("")] }

\* the inputs of getLintURL and getFormatURL
SqlTexts == {Undefined, Str(""), Str("select 1")}
SqlPaths == {Undefined, Str(""), Str("models/a.sql"), Str("models/a b.sql")}
ExtraConfigPaths == {Str(""), Str("cfg.yml"), Str("conf/.sqlfluff")}

Timeouts == {DefaultTimeoutMs}

GetStatuses == {200, 503}

BodyOk == <<P("{"), S("result"), P(":"), S("ok"), P("}")>>

\* {"error": {"code": 2, "message": "boom", "data": {}}}
BodyServerError ==
  <<P("{"), S("error"), P(":"), P("{"), S("code"), P(":"), N(ExecuteSqlFailure), P(","),
    S("message"), P(":"), S("boom"), P(","), S("data"), P(":"), P("{"), P("}"), P("}"), P("}")>>

BodyHtml == <<W("<html>")>>

\* the responses to the POST: lint and format never read the status
Responses ==
  { [status |-> 200, body |-> BodyOk],
    [status |-> 500, body |-> BodyServerError],
    [status |-> 200, body |-> BodyHtml] }

\* the errors fetch and response.json() reject with
FetchError == "FetchError: request failed"
AbortError == "AbortError: The user aborted a request."
SyntaxError == "SyntaxError: Unexpected token in JSON"

HyphenatedLine == "------------------------------------------------------------"

(* ------------------------------- calls --------------------------------- *)
(* calls is the bag of the invocations of healthCheck, lint and format,    *)
(* one record each (invocations have no identity beyond their state).  pc  *)
(* is the await the invocation is suspended at.  A timer is "none",        *)
(* "pending", "fired" or "cancelled"; clears counts the clearTimeout calls *)
(* on it.                                                                  *)
(* hcSettled and postSettled are how the GET and the POST settled: "none", *)
(* a status or "resolved", or an error.  host0 and port0 are the           *)
(* configuration when the invocation started.  trace is the sequence of    *)
(* the effects of the invocation, in program order: "setTimeout", "fetch", *)
(* "abort", "clearTimeout", "log" (one per appended line), "json",         *)
(* "return" and "throw".                                                   *)

NewCall ==
  [ kind |-> "none", pc |-> "idle", timeout |-> 0,
    host0 |-> "", port0 |-> 0, unreachable |-> Undefined,
    hcTimer |-> "none", hcDelay |-> 0, hcClears |-> 0, hcAborted |-> FALSE,
    gets |-> 0, getUrl |-> "", hcSettled |-> "none", healthy |-> Undefined,
    timer |-> "none", clears |-> 0, aborted |-> FALSE,
    posts |-> 0, postUrl |-> "", postBody |-> Undefined,
    postSettled |-> "none", respStatus |-> 0, respBody |-> <<>>,
    log |-> <<>>, trace |-> <<>>,
    outcome |-> "none", exit |-> "none", result |-> Undefined ]

\* clearTimeout(handle): cancels a pending timer, no effect on one that fired
ClearTimeout(t) == IF t = "pending" THEN "cancelled" ELSE t

\* healthCheck up to its await: new AbortController, setTimeout(1000), fetch GET
EnterHealthCheck(r) ==
  [r EXCEPT !.pc = "health", !.host0 = host, !.port0 = port,
            !.hcTimer = "pending", !.hcDelay = HealthTimeoutMs,
            !.gets = @ + 1, !.getUrl = HealthURL(host, port),
            !.trace = @ \o <<"setTimeout", "fetch">>]

Active == BagToSet(calls)

\* the invocation r moves on to r2
Replace(r, r2) == (calls (-) SetToBag({r})) (+) SetToBag({r2})

\* the fetch an invocation is suspended on: still in flight, or in flight
\* with its signal aborted; and the body of a resolved POST being read
GetPending(r) == r.pc = "health" /\ ~r.hcAborted
GetAborted(r) == r.pc = "health" /\ r.hcAborted
PostPending(r) == r.pc = "post" /\ ~r.aborted
PostAborted(r) == r.pc = "post" /\ r.aborted
BodyPending(r) == r.pc = "json"

CallHealthCheck ==
  /\ BagCardinality(calls) < MaxCalls
  /\ calls' = calls (+) SetToBag({EnterHealthCheck([NewCall EXCEPT !.kind = "healthCheck"])})
  /\ UNCHANGED <<sql, sql_path, extra_config_path, host, port, lastUrl>>

(* ------------------------------- lint ---------------------------------- *)

\* lint(timeout) from its first statement to the await inside healthCheck
LintEntered(t) ==
  EnterHealthCheck([NewCall EXCEPT !.kind = "lint", !.timeout = t,
                      !.unreachable = failedToReachServerError(host, port)])

\* lint(timeout) up to the await inside healthCheck
LintCall(t) ==
  /\ BagCardinality(calls) < MaxCalls
  /\ calls' = calls (+) SetToBag({LintEntered(t)})
  /\ UNCHANGED <<sql, sql_path, extra_config_path, host, port, lastUrl>>

\* mutant: lint goes on to the POST whatever healthCheck returned
LintAfterHealthUnchecked(r) ==
  [r EXCEPT !.timer = "pending", !.posts = @ + 1,
            !.postUrl = encodeURI(getLintURL(sql, sql_path, extra_config_path, host, port)),
            !.postBody = sql, !.pc = "post",
            !.trace = @ \o <<"setTimeout", "fetch">>]

\* lint resumes with the result of healthCheck: the unhealthy return, or
\* new AbortController, setTimeout(timeout) and the POST
LintAfterHealth(r) ==
  IF r.healthy # Bool(TRUE)
  THEN [r EXCEPT !.log = @ \o <<HyphenatedLine, "Unhealthy dbt project:", HyphenatedLine>>,
                 !.trace = @ \o <<"log", "log", "log", "return">>,
                 !.pc = "done", !.outcome = "return", !.exit = "notRegistered",
                 !.result = projectNotRegisteredError]
  ELSE [r EXCEPT !.timer = "pending", !.posts = @ + 1,
                 !.postUrl = encodeURI(getLintURL(sql, sql_path, extra_config_path, host, port)),
                 !.postBody = sql, !.pc = "post",
                 !.trace = @ \o <<"setTimeout", "fetch">>]

\* mutant: lint awaits response.json() with its timer still running
LintResolvedNoClear(r) ==
  [r EXCEPT !.postSettled = "resolved", !.pc = "json"]

\* lint resumes with the response: clearTimeout, then await response.json()
LintResolved(r) ==
  [r EXCEPT !.timer = ClearTimeout(@), !.clears = @ + 1,
            !.postSettled = "resolved", !.pc = "json",
            !.trace = @ \o <<"clearTimeout">>]

\* mutant: lint logs the status of the response it received
LintPostResolveLogging(r) ==
  /\ r.kind = "lint" /\ PostPending(r)
  /\ calls' = Replace(r, [LintResolved(r) EXCEPT
                            !.log = @ \o <<"Raw dbt-core-interface /lint response:">>])
  /\ UNCHANGED <<sql, sql_path, extra_config_path, host, port, lastUrl>>

\* the POST resolves, with any status
LintPostResolve(r) ==
  /\ r.kind = "lint" /\ PostPending(r)
  /\ calls' = Replace(r, LintResolved(r))
  /\ UNCHANGED <<sql, sql_path, extra_config_path, host, port, lastUrl>>

\* mutant: the catch block of lint clears the timer before it logs
LintCatchClearFirst(r, error) ==
  [r EXCEPT !.postSettled = error,
            !.log = @ \o <<HyphenatedLine, "Raw dbt-core-interface /lint error response:",
                             HyphenatedLine, error, HyphenatedLine>>,
            !.timer = ClearTimeout(@), !.clears = @ + 1,
            !.trace = @ \o <<"clearTimeout", "log", "log", "log", "log", "log", "return">>,
            !.pc = "done", !.outcome = "return", !.exit = "unreachable",
            !.result = r.unreachable]

\* the catch block of lint
LintCatch(r, error) ==
  [r EXCEPT !.postSettled = error,
            !.log = @ \o <<HyphenatedLine, "Raw dbt-core-interface /lint error response:",
                             HyphenatedLine, error, HyphenatedLine>>,
            !.timer = ClearTimeout(@), !.clears = @ + 1,
            !.trace = @ \o <<"log", "log", "log", "log", "log", "clearTimeout", "return">>,
            !.pc = "done", !.outcome = "return", !.exit = "unreachable",
            !.result = r.unreachable]

\* the POST rejects (network failure)
LintPostReject(r) ==
  /\ r.kind = "lint" /\ PostPending(r)
  /\ calls' = Replace(r, LintCatch(r, FetchError))
  /\ UNCHANGED <<sql, sql_path, extra_config_path, host, port, lastUrl>>

\* the POST rejects because its signal was aborted
LintPostAbort(r) ==
  /\ r.kind = "lint" /\ PostAborted(r)
  /\ calls' = Replace(r, LintCatch(r, AbortError))
  /\ UNCHANGED <<sql, sql_path, extra_config_path, host, port, lastUrl>>

\* lint resumes with the text of the body: the parsed value is returned, a
\* SyntaxError leaves lint as an exception
LintJson(r, resp) ==
  LET j == JsonParse(resp.body) IN
  IF j.ok
  THEN [r EXCEPT !.respStatus = resp.status, !.respBody = resp.body,
                 !.trace = @ \o <<"json", "return">>,
                 !.pc = "done", !.outcome = "return",
                 !.exit = "json", !.result = j.val]
  ELSE [r EXCEPT !.respStatus = resp.status, !.respBody = resp.body,
                 !.trace = @ \o <<"json", "throw">>,
                 !.pc = "done", !.outcome = "throw",
                 !.exit = "json", !.result = Str(SyntaxError)]

\* response.json() settles on a fully received body
LintJsonDone(r, resp) ==
  /\ r.kind = "lint" /\ BodyPending(r)
  /\ calls' = Replace(r, LintJson(r, resp))
  /\ UNCHANGED <<sql, sql_path, extra_config_path, host, port, lastUrl>>

\* lint resumes with the rejection of response.json(), which it rethrows
LintJsonFailed(r) ==
  [r EXCEPT !.pc = "done", !.outcome = "throw", !.trace = @ \o <<"throw">>,
            !.exit = "json", !.result = Str(FetchError)]

\* response.json() rejects: the body stream failed
LintJsonFail(r) ==
  /\ r.kind = "lint" /\ BodyPending(r)
  /\ calls' = Replace(r, LintJsonFailed(r))
  /\ UNCHANGED <<sql, sql_path, extra_config_path, host, port, lastUrl>>

(* ------------------------------- format ---------------------------------- *)

\* format(timeout) from its first statement to the await inside healthCheck
FormatEntered(t) ==
  EnterHealthCheck([NewCall EXCEPT !.kind = "format", !.timeout = t,
                      !.unreachable = failedToReachServerError(host, port)])

\* format(timeout) up to the await inside healthCheck
FormatCall(t) ==
  /\ BagCardinality(calls) < MaxCalls
  /\ calls' = calls (+) SetToBag({FormatEntered(t)})
  /\ UNCHANGED <<sql, sql_path, extra_config_path, host, port, lastUrl>>

\* mutant: in path mode format sends the path as the body of the POST
FormatAfterHealthPathBody(r) ==
  IF r.healthy # Bool(TRUE)
  THEN [r EXCEPT !.log = @ \o <<HyphenatedLine, "Unhealthy dbt project:", HyphenatedLine>>,
                 !.trace = @ \o <<"log", "log", "log", "return">>,
                 !.pc = "done", !.outcome = "return", !.exit = "notRegistered",
                 !.result = projectNotRegisteredError]
  ELSE [r EXCEPT !.timer = "pending", !.posts = @ + 1,
                 !.postUrl = encodeURI(getFormatURL(sql, sql_path, extra_config_path, host, port)),
                 !.postBody = IF sql = Undefined THEN sql_path ELSE sql, !.pc = "post",
                 !.trace = @ \o <<"setTimeout", "fetch">>]

\* format resumes with the result of healthCheck: the unhealthy return, or
\* new AbortController, setTimeout(timeout) and the POST
FormatAfterHealth(r) ==
  IF r.healthy # Bool(TRUE)
  THEN [r EXCEPT !.log = @ \o <<HyphenatedLine, "Unhealthy dbt project:", HyphenatedLine>>,
                 !.trace = @ \o <<"log", "log", "log", "return">>,
                 !.pc = "done", !.outcome = "return", !.exit = "notRegistered",
                 !.result = projectNotRegisteredError]
  ELSE [r EXCEPT !.timer = "pending", !.posts = @ + 1,
                 !.postUrl = encodeURI(getFormatURL(sql, sql_path, extra_config_path, host, port)),
                 !.postBody = sql, !.pc = "post",
                 !.trace = @ \o <<"setTimeout", "fetch">>]

\* format resumes with the response: clearTimeout, then await response.json()
FormatResolved(r) ==
  [r EXCEPT !.timer = ClearTimeout(@), !.clears = @ + 1,
            !.postSettled = "resolved", !.pc = "json",
            !.trace = @ \o <<"clearTimeout">>]

\* the POST resolves, with any status
FormatPostResolve(r) ==
  /\ r.kind = "format" /\ PostPending(r)
  /\ calls' = Replace(r, FormatResolved(r))
  /\ UNCHANGED <<sql, sql_path, extra_config_path, host, port, lastUrl>>

\* mutant: the catch block of format returns without clearTimeout
FormatCatchNoClear(r, error) ==
  [r EXCEPT !.postSettled = error,
            !.log = @ \o <<HyphenatedLine, "Raw dbt-core-interface /format error response:",
                             HyphenatedLine, error, HyphenatedLine>>,
            !.trace = @ \o <<"log", "log", "log", "log", "log", "return">>,
            !.pc = "done", !.outcome = "return", !.exit = "unreachable",
            !.result = r.unreachable]

\* the catch block of format
FormatCatch(r, error) ==
  [r EXCEPT !.postSettled = error,
            !.log = @ \o <<HyphenatedLine, "Raw dbt-core-interface /format error response:",
                             HyphenatedLine, error, HyphenatedLine>>,
            !.timer = ClearTimeout(@), !.clears = @ + 1,
            !.trace = @ \o <<"log", "log", "log", "log", "log", "clearTimeout", "return">>,
            !.pc = "done", !.outcome = "return", !.exit = "unreachable",
            !.result = r.unreachable]

\* the POST rejects (network failure)
FormatPostReject(r) ==
  /\ r.kind = "format" /\ PostPending(r)
  /\ calls' = Replace(r, FormatCatch(r, FetchError))
  /\ UNCHANGED <<sql, sql_path, extra_config_path, host, port, lastUrl>>

\* the POST rejects because its signal was aborted
FormatPostAbort(r) ==
  /\ r.kind = "format" /\ PostAborted(r)
  /\ calls' = Replace(r, FormatCatch(r, AbortError))
  /\ UNCHANGED <<sql, sql_path, extra_config_path, host, port, lastUrl>>

\* format resumes with the text of the body: the parsed value is returned,
\* a SyntaxError leaves format as an exception
FormatJson(r, resp) ==
  LET j == JsonParse(resp.body) IN
  IF j.ok
  THEN [r EXCEPT !.respStatus = resp.status, !.respBody = resp.body,
                 !.trace = @ \o <<"json", "return">>,
                 !.pc = "done", !.outcome = "return",
                 !.exit = "json", !.result = j.val]
  ELSE [r EXCEPT !.respStatus = resp.status, !.respBody = resp.body,
                 !.trace = @ \o <<"json", "throw">>,
                 !.pc = "done", !.outcome = "throw",
                 !.exit = "json", !.result = Str(SyntaxError)]

\* mutant: format unwraps the result member of the parsed body
FormatJsonDoneUnwrap(r, resp) ==
  /\ r.kind = "format" /\ BodyPending(r)
  /\ calls' = Replace(r,
        LET j == FormatJson(r, resp) IN
        IF j.outcome = "return" /\ "obj" \in DOMAIN j.result
        THEN (IF "result" \in DOMAIN j.result.obj
              THEN [j EXCEPT !.result = j.result.obj["result"]] ELSE j)
        ELSE j)
  /\ UNCHANGED <<sql, sql_path, extra_config_path, host, port, lastUrl>>

\* response.json() settles on a fully received body
FormatJsonDone(r, resp) ==
  /\ r.kind = "format" /\ BodyPending(r)
  /\ calls' = Replace(r, FormatJson(r, resp))
  /\ UNCHANGED <<sql, sql_path, extra_config_path, host, port, lastUrl>>

\* mutant: format swallows the rejection of response.json()
FormatJsonFailedSwallowed(r) ==
  [r EXCEPT !.pc = "done", !.outcome = "return", !.trace = @ \o <<"return">>,
            !.exit = "json", !.result = Undefined]

\* format resumes with the rejection of response.json(), which it rethrows
FormatJsonFailed(r) ==
  [r EXCEPT !.pc = "done", !.outcome = "throw", !.trace = @ \o <<"throw">>,
            !.exit = "json", !.result = Str(FetchError)]

\* response.json() rejects: the body stream failed
FormatJsonFail(r) ==
  /\ r.kind = "format" /\ BodyPending(r)
  /\ calls' = Replace(r, FormatJsonFailed(r))
  /\ UNCHANGED <<sql, sql_path, extra_config_path, host, port, lastUrl>>

(* ---------------------------- healthCheck ------------------------------ *)

\* mutant: any status the server answers with counts as healthy
StatusIsAny(status) == status >= 200

\* response.status === 200
StatusIs200(status) == status = 200

\* mutant: healthCheck issues the GET once more when the first one failed
LeaveHealthCheckRetry(r, settled, b) ==
  LET r1 == [r EXCEPT !.hcSettled = settled, !.healthy = Bool(b),
                      !.hcTimer = ClearTimeout(@), !.hcClears = @ + 1,
                      !.trace = @ \o <<"clearTimeout">>]
  IN  IF ~b /\ r.gets < 2
      THEN [r1 EXCEPT !.hcTimer = "pending", !.hcAborted = FALSE, !.gets = @ + 1,
                      !.trace = @ \o <<"setTimeout", "fetch">>]
      ELSE IF r.kind = "lint" THEN LintAfterHealth(r1)
      ELSE IF r.kind = "format" THEN FormatAfterHealth(r1)
      ELSE [r1 EXCEPT !.pc = "done", !.outcome = "return", !.exit = "healthCheck",
                      !.result = Bool(b), !.trace = @ \o <<"return">>]

\* healthCheck from the settled fetch to its return (try/catch, finally
\* clearTimeout), and then the caller awaiting it, up to its next await
LeaveHealthCheck(r, settled, b) ==
  LET r1 == [r EXCEPT !.hcSettled = settled, !.healthy = Bool(b),
                      !.hcTimer = ClearTimeout(@), !.hcClears = @ + 1,
                      !.trace = @ \o <<"clearTimeout">>]
  IN  IF r.kind = "lint" THEN LintAfterHealth(r1)
      ELSE IF r.kind = "format" THEN FormatAfterHealth(r1)
      ELSE [r1 EXCEPT !.pc = "done", !.outcome = "return", !.exit = "healthCheck",
                      !.result = Bool(b), !.trace = @ \o <<"return">>]

\* the callback of the health timer: abortController.abort()
HealthTimerFired(r) ==
  [r EXCEPT !.hcTimer = "fired", !.hcAborted = TRUE, !.trace = @ \o <<"abort">>]

\* the health timer expires
HealthTimerFire(r) ==
  /\ r.hcTimer = "pending"
  /\ calls' = Replace(r, HealthTimerFired(r))
  /\ UNCHANGED <<sql, sql_path, extra_config_path, host, port, lastUrl>>

\* the GET resolves with a status
HealthResolve(r, status) ==
  /\ GetPending(r)
  /\ calls' = Replace(r, LeaveHealthCheck(r, ToString(status), StatusIs200(status)))
  /\ UNCHANGED <<sql, sql_path, extra_config_path, host, port, lastUrl>>

\* the GET rejects (network failure)
HealthReject(r) ==
  /\ GetPending(r)
  /\ calls' = Replace(r, LeaveHealthCheck(r, FetchError, FALSE))
  /\ UNCHANGED <<sql, sql_path, extra_config_path, host, port, lastUrl>>

\* the GET rejects because its signal was aborted
HealthAbort(r) ==
  /\ GetAborted(r)
  /\ calls' = Replace(r, LeaveHealthCheck(r, AbortError, FALSE))
  /\ UNCHANGED <<sql, sql_path, extra_config_path, host, port, lastUrl>>

\* the callback of the timer of lint or format: abortController.abort()
TimerFired(r) ==
  [r EXCEPT !.timer = "fired", !.aborted = TRUE, !.trace = @ \o <<"abort">>]

\* mutant: one abort controller shared by the invocations of the instance
TimerFireShared(r) ==
  /\ r.timer = "pending"
  /\ calls' = BagOfAll(LAMBDA x : IF x.pc = "post" THEN TimerFired(x) ELSE x, calls)
  /\ UNCHANGED <<sql, sql_path, extra_config_path, host, port, lastUrl>>

\* the timer of lint or format expires
TimerFire(r) ==
  /\ r.timer = "pending"
  /\ calls' = Replace(r, TimerFired(r))
  /\ UNCHANGED <<sql, sql_path, extra_config_path, host, port, lastUrl>>

(* --------------------------- the environment --------------------------- *)

\* the user edits the dbt interface port in the settings
ConfigChange(p) ==
  /\ p # port
  /\ port' = p
  /\ UNCHANGED <<sql, sql_path, extra_config_path, host, calls, lastUrl>>

\* direct calls of the public URL builders
GetLintURL ==
  /\ lastUrl' = [fn |-> "getLintURL", url |-> getLintURL(sql, sql_path, extra_config_path, host, port)]
  /\ UNCHANGED <<sql, sql_path, extra_config_path, host, port, calls>>

GetFormatURL ==
  /\ lastUrl' = [fn |-> "getFormatURL", url |-> getFormatURL(sql, sql_path, extra_config_path, host, port)]
  /\ UNCHANGED <<sql, sql_path, extra_config_path, host, port, calls>>

(* --------------------------- specifications ---------------------------- *)

Init ==
  /\ \E i \in Instances :
        /\ sql = i.sql /\ sql_path = i.sql_path /\ extra_config_path = i.extra_config_path
  /\ host \in Hosts /\ port = 8581
  /\ calls = EmptyBag
  /\ lastUrl = [fn |-> "none", url |-> ""]

Next ==
  \/ CallHealthCheck
  \/ \E r \in Active : HealthTimerFire(r)
  \/ \E r \in Active, st \in GetStatuses : HealthResolve(r, st)
  \/ \E r \in Active : HealthReject(r)
  \/ \E r \in Active : HealthAbort(r)
  \/ \E t \in Timeouts : LintCall(t)
  \/ \E r \in Active : LintPostResolve(r)
  \/ \E r \in Active : LintPostReject(r)
  \/ \E r \in Active : LintPostAbort(r)
  \/ \E r \in Active, resp \in Responses : LintJsonDone(r, resp)
  \/ \E r \in Active : LintJsonFail(r)
  \/ \E t \in Timeouts : FormatCall(t)
  \/ \E r \in Active : FormatPostResolve(r)
  \/ \E r \in Active : FormatPostReject(r)
  \/ \E r \in Active : FormatPostAbort(r)
  \/ \E r \in Active, resp \in Responses : FormatJsonDone(r, resp)
  \/ \E r \in Active : FormatJsonFail(r)
  \/ \E r \in Active : TimerFire(r)
  \/ \E p \in Ports : ConfigChange(p)

Spec == Init /\ [][Next]_vars

\* getLintURL and getFormatURL applied to every combination of the fields
InitURL ==
  /\ sql \in SqlTexts /\ sql_path \in SqlPaths /\ extra_config_path \in ExtraConfigPaths
  /\ host \in Hosts /\ port \in Ports
  /\ calls = EmptyBag
  /\ lastUrl = [fn |-> "none", url |-> ""]

NextURL == GetLintURL \/ GetFormatURL

SpecURL == InitURL /\ [][NextURL]_vars

(* --------------------- lint and format side by side -------------------- *)
(* One lint and one format invocation of the same instance, entered        *)
(* together and driven by the same events: each timer or network event is  *)
(* delivered to both, and each takes it where it is waiting for it.  The   *)
(* instance has any combination of the fields.                             *)

PairLint == CHOOSE r \in Active : r.kind = "lint"
PairFormat == CHOOSE r \in Active : r.kind = "format"

\* the event is delivered: the invocation waiting for it (le, fe) moves on
PairEvent(le, l2, fe, f2) ==
  /\ le \/ fe
  /\ calls' = SetToBag({IF le THEN l2 ELSE PairLint})
                (+) SetToBag({IF fe THEN f2 ELSE PairFormat})
  /\ UNCHANGED <<sql, sql_path, extra_config_path, host, port, lastUrl>>

PairCall(t) ==
  /\ calls = EmptyBag
  /\ calls' = SetToBag({LintEntered(t)}) (+) SetToBag({FormatEntered(t)})
  /\ UNCHANGED <<sql, sql_path, extra_config_path, host, port, lastUrl>>

PairHealthTimerFire ==
  /\ calls # EmptyBag
  /\ PairEvent(PairLint.hcTimer = "pending", HealthTimerFired(PairLint),
               PairFormat.hcTimer = "pending", HealthTimerFired(PairFormat))

PairHealthResolve(status) ==
  /\ calls # EmptyBag
  /\ PairEvent(GetPending(PairLint),
               LeaveHealthCheck(PairLint, ToString(status), StatusIs200(status)),
               GetPending(PairFormat),
               LeaveHealthCheck(PairFormat, ToString(status), StatusIs200(status)))

PairHealthReject ==
  /\ calls # EmptyBag
  /\ PairEvent(GetPending(PairLint), LeaveHealthCheck(PairLint, FetchError, FALSE),
               GetPending(PairFormat), LeaveHealthCheck(PairFormat, FetchError, FALSE))

PairHealthAbort ==
  /\ calls # EmptyBag
  /\ PairEvent(GetAborted(PairLint), LeaveHealthCheck(PairLint, AbortError, FALSE),
               GetAborted(PairFormat), LeaveHealthCheck(PairFormat, AbortError, FALSE))

PairTimerFire ==
  /\ calls # EmptyBag
  /\ PairEvent(PairLint.timer = "pending", TimerFired(PairLint),
               PairFormat.timer = "pending", TimerFired(PairFormat))

PairPostResolve ==
  /\ calls # EmptyBag
  /\ PairEvent(PostPending(PairLint), LintResolved(PairLint),
               PostPending(PairFormat), FormatResolved(PairFormat))

PairPostReject ==
  /\ calls # EmptyBag
  /\ PairEvent(PostPending(PairLint), LintCatch(PairLint, FetchError),
               PostPending(PairFormat), FormatCatch(PairFormat, FetchError))

PairPostAbort ==
  /\ calls # EmptyBag
  /\ PairEvent(PostAborted(PairLint), LintCatch(PairLint, AbortError),
               PostAborted(PairFormat), FormatCatch(PairFormat, AbortError))

PairJsonDone(resp) ==
  /\ calls # EmptyBag
  /\ PairEvent(BodyPending(PairLint), LintJson(PairLint, resp),
               BodyPending(PairFormat), FormatJson(PairFormat, resp))

PairJsonFail ==
  /\ calls # EmptyBag
  /\ PairEvent(BodyPending(PairLint), LintJsonFailed(PairLint),
               BodyPending(PairFormat), FormatJsonFailed(PairFormat))

NextPair ==
  \/ \E t \in Timeouts : PairCall(t)
  \/ PairHealthTimerFire
  \/ \E st \in GetStatuses : PairHealthResolve(st)
  \/ PairHealthReject
  \/ PairHealthAbort
  \/ PairTimerFire
  \/ PairPostResolve
  \/ PairPostReject
  \/ PairPostAbort
  \/ \E resp \in Responses : PairJsonDone(resp)
  \/ PairJsonFail
  \/ \E p \in Ports : ConfigChange(p)

SpecPair == InitURL /\ [][NextPair]_vars

(* ------------------------------ scheduling ----------------------------- *)
(* What the runtime and the HTTP client guarantee: a timer that stays      *)
(* pending expires, and a fetch whose signal is aborted rejects.  Nothing  *)
(* is assumed of the server: it may never answer a GET or a POST, and it   *)
(* may never finish the body of a response.                                *)

Fairness ==
  /\ WF_vars(\E r \in Active : HealthTimerFire(r))
  /\ WF_vars(\E r \in Active : HealthAbort(r))
  /\ WF_vars(\E r \in Active : TimerFire(r))
  /\ WF_vars(\E r \in Active : LintPostAbort(r))
  /\ WF_vars(\E r \in Active : FormatPostAbort(r))

SpecFair == Spec /\ Fairness

(* ------------------------------ properties ----------------------------- *)

LintOrFormat(r) == r.kind \in {"lint", "format"}
Done(r) == r.pc = "done"
PostResolved(r) == r.postSettled = "resolved"
PostFailed(r) == r.postSettled \in {FetchError, AbortError}

\* sub occurs in s
Contains(s, sub) ==
  \E i \in 1..(Len(s) - Len(sub) + 1) : SubSeq(s, i, i + Len(sub) - 1) = sub

\* the error codes a payload carries in error.code
CodesOf(v) ==
  IF "obj" \notin DOMAIN v THEN {}
  ELSE IF "error" \notin DOMAIN v.obj THEN {}
  ELSE LET e == v.obj["error"] IN
    IF "obj" \notin DOMAIN e THEN {}
    ELSE IF "code" \notin DOMAIN e.obj THEN {}
    ELSE IF "num" \notin DOMAIN e.obj["code"] THEN {}
    ELSE {e.obj["code"].num}

\* C1: lint and format never let an exception escape: whatever the outcomes
\* of the health GET and of the POST (any status, any body, a body that is
\* not valid JSON, a rejection, an abort), a call that completes has
\* returned a payload and has not thrown.
C1_NoExceptionEscapes ==
  \A r \in Active : LintOrFormat(r) /\ Done(r) => r.outcome = "return"

\* C2: a lint or format call whose health check resolved false has returned
\* exactly projectNotRegisteredError and has issued no POST; a call that has
\* issued a POST saw its health GET complete with status 200 before.
C2_UnhealthyReturnsNotRegisteredWithoutPost ==
  \A r \in Active : LintOrFormat(r) =>
    /\ r.healthy = Bool(FALSE) =>
          /\ Done(r) /\ r.outcome = "return"
          /\ r.result = projectNotRegisteredError
          /\ CodesOf(r.result) = {CompileSqlFailure}
          /\ r.result.obj["error"].obj["data"] = Obj([error |-> Str("")])
          /\ r.posts = 0 /\ r.postUrl = "" /\ r.postSettled = "none"
    /\ r.posts > 0 => r.hcSettled = "200" /\ r.healthy = Bool(TRUE)

C2_Witness ==
  \E r \in Active :
    /\ r.kind = "lint" /\ Done(r) /\ r.hcSettled = "503"
    /\ r.healthy = Bool(FALSE) /\ r.posts = 0

\* C3: every timer created by healthCheck, lint and format is cleared
\* exactly once per invocation on every exit path: no timer is ever cleared
\* twice, and when the invocation has finished none of its timers is still
\* pending and each timer it created was cleared once.
C3_TimersClearedExactlyOnce ==
  \A r \in Active :
    /\ r.hcClears <= 1 /\ r.clears <= 1
    /\ r.hcTimer = "none" => r.hcClears = 0
    /\ r.timer = "none" => r.clears = 0
    /\ Done(r) =>
          /\ r.hcTimer \in {"cancelled", "fired"} /\ r.hcClears = 1
          /\ r.timer # "pending"
          /\ r.timer # "none" => r.clears = 1

C3_Witness ==
  \E r \in Active :
    /\ r.kind = "format" /\ Done(r) /\ r.postSettled = AbortError
    /\ r.hcTimer = "cancelled" /\ r.timer = "fired"
    /\ r.hcClears = 1 /\ r.clears = 1

\* C5: healthCheck always returns a boolean and never throws: true exactly
\* when the GET resolved with status 200, false when it resolved with
\* another status, rejected, or was aborted by the 1-second timer.
C5_HealthCheckBoolean ==
  \A r \in Active :
    /\ r.kind = "healthCheck" /\ Done(r) =>
          /\ r.outcome = "return"
          /\ r.result \in {Bool(TRUE), Bool(FALSE)}
          /\ r.result = r.healthy
    /\ r.hcSettled # "none" =>
          /\ r.healthy \in {Bool(TRUE), Bool(FALSE)}
          /\ r.healthy = Bool(TRUE) <=> r.hcSettled = "200"
    /\ r.hcSettled = "none" /\ r.kind # "none" => r.pc = "health"
    /\ r.hcAborted => r.hcTimer = "fired" /\ r.hcDelay = HealthTimeoutMs

C5_Witness ==
  \E r \in Active :
    /\ r.kind = "healthCheck" /\ Done(r)
    /\ r.hcSettled = AbortError /\ r.result = Bool(FALSE)

\* the payload fields read below
ErrorOf(v) == v.obj["error"].obj
FixedUnreachableMessage == "Query failed to reach dbt sync server."

\* C4, as claimed: when the health check passed and the POST rejected or was
\* aborted, the returned payload has error.code = FailedToReachServer and a
\* message containing the configured host and port.
C4_Original ==
  \A r \in Active : LintOrFormat(r) /\ PostFailed(r) =>
    /\ Done(r) /\ r.outcome = "return"
    /\ CodesOf(r.result) = {FailedToReachServer}
    /\ Contains(ErrorOf(r.result)["message"].str, r.host0)
    /\ Contains(ErrorOf(r.result)["message"].str, ToString(r.port0))

\* C4, amended: when the health check passed and the POST rejected or was
\* aborted, the returned payload has error.code = FailedToReachServer, the
\* fixed message, and a detail error.data.error containing the host and the
\* port that were configured when the call started.
C4_UnreachablePayload ==
  \A r \in Active : LintOrFormat(r) /\ PostFailed(r) =>
    /\ Done(r) /\ r.outcome = "return"
    /\ r.healthy = Bool(TRUE) /\ r.posts = 1
    /\ CodesOf(r.result) = {FailedToReachServer}
    /\ ErrorOf(r.result)["message"] = Str(FixedUnreachableMessage)
    /\ Contains(ErrorOf(r.result)["data"].obj["error"].str, r.host0)
    /\ Contains(ErrorOf(r.result)["data"].obj["error"].str, ToString(r.port0))

C4_Witness ==
  \E r \in Active :
    /\ r.kind = "lint" /\ Done(r) /\ r.postSettled = FetchError
    /\ r.result = failedToReachServerError("localhost", 8581)

ServerCodes == {CompileSqlFailure, ExecuteSqlFailure, ProjectParseFailure, UnlintableUnfixable}
LocalShapes(r) == {projectNotRegisteredError, failedToReachServerError(r.host0, r.port0)}
FromParsedBody(r) ==
  /\ r.exit = "json" /\ PostResolved(r)
  /\ JsonParse(r.respBody).ok
  /\ r.result = JsonParse(r.respBody).val

\* C6, as claimed: a locally constructed payload is one of the two shapes,
\* and a returned payload carrying one of the four server-defined codes
\* always comes from a successfully parsed response body.
C6_Original ==
  \A r \in Active : LintOrFormat(r) /\ Done(r) /\ r.outcome = "return" =>
    /\ r.exit # "json" => r.result \in LocalShapes(r)
    /\ CodesOf(r.result) \cap ServerCodes # {} => FromParsedBody(r)

\* C6, amended: a locally constructed payload is one of the two shapes
\* (project-not-registered, which carries CompileSqlFailure, and
\* server-unreachable), and a returned payload carrying ExecuteSqlFailure,
\* ProjectParseFailure or UnlintableUnfixable always comes from a
\* successfully parsed response body.
C6_LocalPayloadShapes ==
  \A r \in Active : LintOrFormat(r) /\ Done(r) /\ r.outcome = "return" =>
    /\ r.exit # "json" => r.result \in LocalShapes(r)
    /\ r.exit = "notRegistered" => CodesOf(r.result) = {CompileSqlFailure}
    /\ CodesOf(r.result) \cap (ServerCodes \ {CompileSqlFailure}) # {} => FromParsedBody(r)

C6_Witness ==
  \E r \in Active :
    /\ LintOrFormat(r) /\ Done(r) /\ r.outcome = "return"
    /\ CodesOf(r.result) = {ExecuteSqlFailure} /\ r.exit = "json"

\* C7: when the health check passed and the POST resolved, with any status,
\* the value lint and format return is the parsed response body, unchanged:
\* every body that is JSON is returned as parsed (a body encoding a server
\* error included), and nothing else is ever returned on this path.
C7_PassThrough ==
  \A r \in Active : LintOrFormat(r) /\ PostResolved(r) /\ Done(r) =>
    /\ r.outcome = "return" => FromParsedBody(r)
    /\ JsonParse(r.respBody).ok => r.outcome = "return"
    /\ r.respBody = BodyOk => r.result = Obj([result |-> Str("ok")])
    /\ r.respBody = BodyServerError =>
          r.result = Obj([error |-> Obj([code |-> Num(ExecuteSqlFailure),
                                                message |-> Str("boom"),
                                                data |-> Obj(<<>>)])])

C7_Witness ==
  \E r \in Active :
    /\ r.kind = "format" /\ Done(r) /\ r.postSettled = "resolved"
    /\ r.respStatus = 500 /\ r.respBody = BodyServerError /\ r.outcome = "return"

\* what both URL builders append for the extra-config path
ExpectedExtra ==
  IF extra_config_path = Str("") THEN "" ELSE "&extra_config_path=" \o extra_config_path.str

\* C8: in SQL-text mode (SQL text not undefined, the empty string included,
\* whatever the SQL path) the URL of getLintURL / getFormatURL is
\* http://<host>:<port>/lint? (or /format?) followed by
\* &extra_config_path=P for a non-empty extra-config path P and by nothing
\* for an empty one; it has no sql_path parameter.
C8_TextModeURL ==
  sql # Undefined =>
    /\ lastUrl.fn = "getLintURL" =>
          lastUrl.url = "http://" \o host \o ":" \o ToString(port) \o "/lint?" \o ExpectedExtra
    /\ lastUrl.fn = "getFormatURL" =>
          lastUrl.url = "http://" \o host \o ":" \o ToString(port) \o "/format?" \o ExpectedExtra
    /\ ~Contains(lastUrl.url, "sql_path")

C8_Witness ==
  /\ lastUrl.fn = "getLintURL" /\ sql = Str("") /\ sql_path = Str("models/a.sql")
  /\ extra_config_path = Str("cfg.yml")
  /\ lastUrl.url = "http://localhost:8581/lint?&extra_config_path=cfg.yml"

\* C9: in path mode (SQL text undefined, SQL path S) the URL of getLintURL
\* is http://<host>:<port>/lint?sql_path=S, with no trailing & when the
\* extra-config path is empty and followed by &extra_config_path=P when it
\* is P; getFormatURL gives the same with /format.
C9_PathModeURL ==
  sql = Undefined /\ sql_path # Undefined =>
    /\ lastUrl.fn = "getLintURL" =>
          lastUrl.url = "http://" \o host \o ":" \o ToString(port) \o "/lint?sql_path="
                          \o sql_path.str \o ExpectedExtra
    /\ lastUrl.fn = "getFormatURL" =>
          lastUrl.url = "http://" \o host \o ":" \o ToString(port) \o "/format?sql_path="
                          \o sql_path.str \o ExpectedExtra
    /\ lastUrl.fn # "none" /\ extra_config_path = Str("") =>
          SubSeq(lastUrl.url, Len(lastUrl.url), Len(lastUrl.url)) # "&"

C9_Witness ==
  /\ lastUrl.fn = "getFormatURL" /\ sql = Undefined /\ sql_path = Str("models/a.sql")
  /\ extra_config_path = Str("")
  /\ lastUrl.url = "http://localhost:8581/format?sql_path=models/a.sql"

\* C10: lint and format write to the output channel on failure paths only:
\* a call whose health check passed and whose POST resolved has appended no
\* line, and a call that has appended a line returns
\* projectNotRegisteredError or its failed-to-reach-server payload.
C10_LogOnFailureOnly ==
  \A r \in Active : LintOrFormat(r) =>
    /\ PostResolved(r) => r.log = <<>>
    /\ r.log # <<>> =>
          /\ Done(r) /\ r.outcome = "return"
          /\ r.result \in LocalShapes(r)
          /\ r.exit \in {"notRegistered", "unreachable"}

C10_Witness ==
  \E r \in Active :
    /\ r.kind = "lint" /\ Done(r) /\ r.postSettled = AbortError
    /\ Len(r.log) = 5 /\ r.result = r.unreachable

\* the number of occurrences of e in the sequence s
Count(s, e) == Cardinality({i \in 1..Len(s) : s[i] = e})

\* the number of copies of the invocation state r in the bag b
CopiesOf(r, b) == IF r \in BagToSet(b) THEN b[r] ELSE 0

\* C11: no retries.  An invocation issues at most one health GET and at
\* most one POST (every fetch in its trace is one of the two); a lint or
\* format call whose health check failed, and a call whose POST failed, has
\* finished without a further request: no fetch follows the first log line.
\* A finished invocation takes no further step.
C11_NoRetries ==
  /\ [](\A r \in Active :
          /\ r.gets <= 1 /\ r.posts <= 1
          /\ Count(r.trace, "fetch") = r.gets + r.posts
          /\ r.hcSettled \notin {"none", "200"} =>
                Done(r) /\ r.gets = 1 /\ r.posts = 0
          /\ PostFailed(r) => Done(r) /\ r.gets = 1 /\ r.posts = 1
          /\ \A i, j \in 1..Len(r.trace) :
                r.trace[i] = "log" /\ i < j => r.trace[j] # "fetch")
  /\ [][\A r \in Active : Done(r) => CopiesOf(r, calls') >= CopiesOf(r, calls)]_vars

C11_Witness ==
  \E r, q \in Active :
    /\ r.kind = "lint" /\ r.postSettled = FetchError /\ r.posts = 1 /\ r.gets = 1
    /\ q.kind = "format" /\ q.hcSettled = FetchError /\ q.posts = 0 /\ q.gets = 1

\* what the state of a finished invocation says its own GET and POST did
OwnOutcomes(r) ==
  <<r.kind, r.host0, r.port0, r.hcSettled, r.postSettled, r.respStatus, r.respBody>>

\* a step touches at most one invocation: it starts one, or moves one on
OneInvocationSteps ==
  \/ calls' = calls
  \/ \E n \in BagToSet(calls') : calls' = calls (+) SetToBag({n})
  \/ \E r \in Active, r2 \in BagToSet(calls') : calls' = Replace(r, r2)

\* C12: interleaved invocations do not interfere.  Each invocation has its
\* own timers and abort signals: a signal is raised only when the timer of
\* the same invocation has fired, and a step of one invocation (its timer
\* expiring, its timer being cleared, its fetch settling) leaves every
\* other invocation, pending timers included, as it was.  Two finished
\* invocations whose own GET and POST had the same outcomes, started under
\* the same configuration, have the same result.
C12_NoInterference ==
  /\ [](\A r \in Active :
          /\ r.aborted => r.timer = "fired"
          /\ r.hcAborted => r.hcTimer = "fired"
          /\ \A q \in Active :
                Done(r) /\ Done(q) /\ OwnOutcomes(r) = OwnOutcomes(q) =>
                   r.result = q.result /\ r.outcome = q.outcome)
  /\ [][OneInvocationSteps]_vars

C12_Witness ==
  \E r, q \in Active :
    /\ r.kind = "lint" /\ r.pc = "post" /\ r.aborted /\ r.timer = "fired"
    /\ q.pc = "post" /\ ~q.aborted /\ q.timer = "pending"

\* the text s with the first occurrence of a replaced by b
ReplaceFirst(s, a, b) ==
  LET at == {i \in 1..(Len(s) - Len(a) + 1) : SubSeq(s, i, i + Len(a) - 1) = a}
  IN  IF at = {} THEN s
      ELSE LET i == CHOOSE k \in at : \A m \in at : k <= m
           IN  SubSeq(s, 1, i - 1) \o b \o SubSeq(s, i + Len(a), Len(s))

\* the state of a format invocation with the two differences the claim
\* allows taken out: the path of the POST URL and the label line of the log
AsLint(f) ==
  [f EXCEPT !.kind = "lint",
            !.postUrl = ReplaceFirst(@, "/format?", "/lint?"),
            !.log = [i \in DOMAIN f.log |->
                       IF f.log[i] = "Raw dbt-core-interface /format error response:"
                       THEN "Raw dbt-core-interface /lint error response:"
                       ELSE f.log[i]]]

\* C13: format has the contract and the state machine of lint.  Entered
\* together on one instance and given the same sequence of network and
\* timer events, the two invocations are at every moment in the same state
\* (same await, same timers and signals, same requests issued, same trace of
\* effects, same payload or exception), except for the path of the POST URL
\* and the label line logged on POST failure.
C13_FormatAsLint ==
  calls # EmptyBag =>
    /\ AsLint(PairFormat) = PairLint
    /\ PairFormat.posts > 0 =>
          /\ PairFormat.postUrl # PairLint.postUrl
          /\ Contains(PairFormat.postUrl, "/format?")
    /\ PairFormat.result = PairLint.result

C13_Witness ==
  /\ calls # EmptyBag
  /\ Done(PairLint) /\ Done(PairFormat)
  /\ PairLint.postSettled = AbortError /\ PairFormat.postSettled = AbortError
  /\ PairLint.log # PairFormat.log
  /\ PairLint.result = PairFormat.result

\* C14: the body of the POST issued by lint and format is the SQL text
\* field of the instance: the text in text mode, undefined in path mode,
\* whatever the SQL path and the extra-config path are (even when the text
\* is the empty string, and never the path).
C14_PostBodyIsSqlText ==
  \A r \in Active : r.posts > 0 =>
    /\ r.postBody = sql
    /\ sql = Undefined => r.postBody = Undefined
    /\ sql # Undefined => r.postBody = Str(sql.str)

C14_Witness ==
  \E r, q \in Active :
    /\ r.kind = "lint" /\ q.kind = "format" /\ r.posts = 1 /\ q.posts = 1
    /\ sql = Undefined /\ sql_path = Str("models/a b.sql")
    /\ extra_config_path = Str("conf/.sqlfluff")
    /\ r.postBody = Undefined /\ q.postBody = Undefined

\* the last n effects of the invocation r
LastEffects(r, n) ==
  IF Len(r.trace) < n THEN <<>>
  ELSE SubSeq(r.trace, Len(r.trace) - n + 1, Len(r.trace))

\* the label line the catch block of lint or format writes
LabelLine(r) ==
  IF r.kind = "lint" THEN "Raw dbt-core-interface /lint error response:"
  ELSE "Raw dbt-core-interface /format error response:"

\* C15: the log output of each failure path.  On the unhealthy path lint
\* and format append a delimiter, the status line and a delimiter, in that
\* order, and nothing else, and then return.  On the POST-failure path they
\* append a delimiter, their label line, a delimiter, the raw error and a
\* delimiter, in that order; all five lines are written before
\* clearTimeout, which comes before the return of the failed-to-reach-server
\* payload.
C15_LogPerFailurePath ==
  \A r \in Active : LintOrFormat(r) =>
    /\ r.exit = "notRegistered" =>
          /\ r.log = <<HyphenatedLine, "Unhealthy dbt project:", HyphenatedLine>>
          /\ Count(r.trace, "log") = 3
          /\ LastEffects(r, 4) = <<"log", "log", "log", "return">>
    /\ r.exit = "unreachable" =>
          /\ r.log = <<HyphenatedLine, LabelLine(r), HyphenatedLine,
                       r.postSettled, HyphenatedLine>>
          /\ r.postSettled \in {FetchError, AbortError}
          /\ Count(r.trace, "log") = 5
          /\ LastEffects(r, 7) =
               <<"log", "log", "log", "log", "log", "clearTimeout", "return">>
          /\ r.timer # "pending" /\ r.result = r.unreachable

C15_Witness ==
  \E r, q \in Active :
    /\ r.kind = "lint" /\ r.exit = "unreachable" /\ r.postSettled = FetchError
    /\ Len(r.log) = 5 /\ r.log[4] = FetchError
    /\ q.kind = "format" /\ q.exit = "notRegistered" /\ Len(q.log) = 3

\* every invocation that is not reading the body of a resolved POST
\* eventually completes: the waits on the GET and on the POST are bounded
\* by the timers
ReturnsOrReadsBody == <>[](\A r \in Active : Done(r) \/ BodyPending(r))

\* C16: every lint, format and healthCheck invocation eventually completes,
\* given that pending timers expire and that an aborted fetch rejects:
\* from some moment on every invocation that was started has finished,
\* whether the server never answers the GET, never answers the POST, or
\* never finishes the body of its response.
C16_EveryInvocationReturns == <>[](\A r \in Active : Done(r))

\* a step that raises an abort signal of an invocation is the expiry of the
\* still pending timer of that signal, and no step raises a signal whose
\* timer was cleared
AbortOnlyByPendingTimer ==
  \A r \in Active, r2 \in BagToSet(calls') :
    calls' = Replace(r, r2) /\ r2 # r =>
      /\ r2.aborted /\ ~r.aborted => r.timer = "pending" /\ r2.timer = "fired"
      /\ r2.hcAborted /\ ~r.hcAborted => r.hcTimer = "pending" /\ r2.hcTimer = "fired"
      /\ r.clears > 0 => r2.aborted = r.aborted /\ r2.timer = r.timer
      /\ r.hcClears > 0 => r2.hcAborted = r.hcAborted /\ r2.hcTimer = r.hcTimer

\* C17: the abort signal of an invocation is raised only by the expiry of
\* its own timer while that timer is pending.  A raised signal goes with a
\* fired timer; once the timer is cleared the signal is never raised and the
\* timer never fires.  On success the timer is cleared before the body is
\* read (clearTimeout is the last effect before response.json()), and a
\* call whose POST resolved never takes the failed-to-reach-server exit.
C17_AbortOnlyByOwnPendingTimer ==
  /\ [](\A r \in Active :
          /\ r.aborted <=> r.timer = "fired"
          /\ r.hcAborted <=> r.hcTimer = "fired"
          /\ BodyPending(r) =>
                /\ r.timer = "cancelled" /\ r.clears = 1
                /\ LastEffects(r, 1) = <<"clearTimeout">>
          /\ PostResolved(r) =>
                /\ ~r.aborted /\ r.timer = "cancelled"
                /\ r.exit # "unreachable" /\ r.log = <<>>
                /\ Done(r) => r.exit = "json" /\ Count(r.trace, "abort") = 0)
  /\ [][AbortOnlyByPendingTimer]_vars

C17_Witness ==
  \E r, q \in Active :
    /\ r.kind = "format" /\ Done(r) /\ PostResolved(r)
    /\ r.timer = "cancelled" /\ ~r.aborted /\ r.outcome = "return"
    /\ q.kind = "lint" /\ Done(q) /\ q.aborted /\ q.timer = "fired"

\* the text s starts with the text pre
StartsWith(s, pre) == Len(s) >= Len(pre) /\ SubSeq(s, 1, Len(pre)) = pre

\* C18: the host:port named in the hint of the failed-to-reach-server
\* payload that a lint or format call returns is the host:port its failed
\* POST was addressed to, also when the configuration changed while the
\* call was suspended on the health check.
C18_HintNamesPostAddress ==
  \A r \in Active : LintOrFormat(r) /\ Done(r) /\ r.exit = "unreachable" =>
    \E h \in Hosts, p \in Ports :
      /\ ErrorOf(r.result)["data"].obj["error"] = Str(FailedToReachServerHint(h, p))
      /\ StartsWith(r.postUrl, BaseURL(h, p) \o "/")

====
